---- MODULE Spec2Model ----
(***************************************************************************)
(* A model of SmolMCPToolFactory (src/mcp_agent_tools/                     *)
(* smol_mcp_tool_factory.py): the lifecycle and ownership of the wrapped   *)
(* MCPToolService, tool discovery, the conversion of one MCPTool into a    *)
(* SmolAgents tool (schema translation and synthesis of forward), and the  *)
(* batch conversion with its partial-failure policy.                       *)
(*                                                                         *)
(* Python dictionaries are modelled as sequences of entries in insertion   *)
(* order with unique keys, Python type objects by their repr string, None  *)
(* and missing keys by the marker NoValue.                                 *)
(***************************************************************************)
EXTENDS FiniteSets, Integers, Sequences, TLC

\* ------------------------------------------------------------------ bounds
MaxParams == 2      \* parameters per descriptor
MaxTools  == 3      \* descriptors per discovery batch
MaxCloses == 2      \* explicit close() calls per factory

\* ------------------------------------------------------------- input sets
NoValue == "<absent>"

ParamNames    == {"kwargs", "query", "a", "bad-name"}
DeclaredTypes == {NoValue, "object", "<class 'int'>", "custom"}
Descriptions  == {NoValue, "doc"}
Values        == {"v1", "v2"}

\* Names that cannot be a formal parameter of a def statement: not an
\* identifier, or a reserved word.
NotIdentifiers == {"bad-name", "class", ""}

ParamInfos == [name : ParamNames, type : DeclaredTypes, description : Descriptions]

RECURSIVE SeqsUpTo(_, _)
SeqsUpTo(S, n) ==
    IF n = 0 THEN {<<>>}
    ELSE LET shorter == SeqsUpTo(S, n - 1)
         IN  shorter \cup {Append(s, x) : s \in shorter, x \in S}

Distinct(names) == \A i, j \in 1..Len(names) : names[i] = names[j] => i = j

\* mcp_tool.inputs: a dict, so its keys are distinct.
InputDicts ==
    {ps \in SeqsUpTo(ParamInfos, MaxParams) :
        Distinct([i \in 1..Len(ps) |-> ps[i].name])}

\* None in place of an MCPTool.
AbsentTool ==
    [present |-> FALSE, name |-> "", description |-> "", callable |-> FALSE,
     hasInputs |-> FALSE, inputs |-> <<>>]

MCPTool(name, callable, hasInputs, inputs) ==
    [present |-> TRUE, name |-> name, description |-> "a tool",
     callable |-> callable, hasInputs |-> hasInputs, inputs |-> inputs]

MCPTools ==
    {AbsentTool}
    \cup {MCPTool(n, c, TRUE, ps) : n \in {"", "run"}, c \in BOOLEAN, ps \in InputDicts}
    \cup {MCPTool(n, c, FALSE, <<>>) : n \in {"", "run"}, c \in BOOLEAN}

\* ------------------------------------------------ mcp_to_smolagent_tool
\* The if/elif chain that maps a declared type to a JSON schema type.
ParamType(python_type) ==
    IF python_type = NoValue THEN "string"
    ELSE IF python_type \in {"<class 'str'>", "string"} THEN "string"
    ELSE IF python_type \in {"<class 'int'>", "integer"} THEN "integer"
    ELSE IF python_type \in {"<class 'float'>", "number"} THEN "number"
    ELSE IF python_type \in {"<class 'bool'>", "boolean"} THEN "boolean"
    ELSE IF python_type \in {"<class 'list'>", "array"} THEN "array"
    ELSE IF python_type \in {"<class 'dict'>", "object"} THEN "object"
    ELSE "string"

\* dict[key] = value: replaces the value in place, or appends a new key.
DictSet(dict, key, value) ==
    IF \E i \in 1..Len(dict) : dict[i].key = key
    THEN [i \in 1..Len(dict) |->
            IF dict[i].key = key THEN [key |-> key, value |-> value] ELSE dict[i]]
    ELSE Append(dict, [key |-> key, value |-> value])

DictKeys(dict) == [i \in 1..Len(dict) |-> dict[i].key]

DictGet(dict, key) == dict[CHOOSE i \in 1..Len(dict) : dict[i].key = key].value

\* The adapter-facing name of a parameter: 'kwargs' is renamed to 'query'.
RenameParam(param_name) == IF param_name = "kwargs" THEN "query" ELSE param_name

\* A variant of DefaultDescription that names the parameter as declared.
DefaultDescriptionOriginal(original_name, param_name) == "Parameter: " \o original_name

\* param_info.get('description', f"Parameter: {param_name}"), evaluated after
\* param_name was reassigned by the rename.
DefaultDescription(original_name, param_name) == "Parameter: " \o param_name

\* One iteration of the loop over mcp_tool.inputs.items().
SchemaStep(st, param_info) ==
    LET param_name == RenameParam(param_info.name)
        entry == [type |-> ParamType(param_info.type),
                  description |->
                      IF param_info.description = NoValue
                      THEN DefaultDescription(param_info.name, param_name)
                      ELSE param_info.description]
    IN  [has_kwargs_param |-> st.has_kwargs_param \/ param_info.name = "kwargs",
         param_names      |-> Append(st.param_names, param_name),
         input_schema     |-> DictSet(st.input_schema, param_name, entry)]

RECURSIVE SchemaLoop(_, _)
SchemaLoop(st, inputs) ==
    IF inputs = <<>> THEN st
    ELSE SchemaLoop(SchemaStep(st, Head(inputs)), Tail(inputs))

\* A variant of DefaultParam that never adds the default parameter.
DefaultParamNever(st) == st

\* "If no parameters were found, add a default one".
DefaultParam(st) ==
    IF st.param_names = <<>>
    THEN [st EXCEPT !.param_names = <<"query">>,
                    !.input_schema =
                        DictSet(st.input_schema, "query",
                                [type |-> "string",
                                 description |-> "Input query for the tool"])]
    ELSE st

BuildSchema(mcp_tool) ==
    LET st0 == [has_kwargs_param |-> FALSE, param_names |-> <<>>, input_schema |-> <<>>]
        st1 == IF mcp_tool.hasInputs /\ mcp_tool.inputs # <<>>
               THEN SchemaLoop(st0, mcp_tool.inputs)
               ELSE st0
    IN  DefaultParam(st1)

\* forward_code: the formal parameters after self, and the keyword arguments
\* of the call of self.mcp_function (keyword kw receives formal arg).
ForwardCode(st) ==
    IF st.has_kwargs_param
    THEN [params |-> <<"query">>, call |-> <<[kw |-> "kwargs", arg |-> "query"]>>]
    ELSE [params |-> st.param_names,
          call   |-> [i \in 1..Len(st.param_names) |->
                        [kw |-> st.param_names[i], arg |-> st.param_names[i]]]]

\* exec(forward_code, namespace) raises SyntaxError on a formal that is no
\* identifier and on a repeated formal or keyword.
Compiles(code) ==
    /\ \A i \in 1..Len(code.params) : code.params[i] \notin NotIdentifiers
    /\ Distinct(<<"self">> \o code.params)
    /\ Distinct([i \in 1..Len(code.call) |-> code.call[i].kw])

NoAdapter ==
    [name |-> NoValue, description |-> NoValue, inputs |-> <<>>,
     output_type |-> NoValue, forward |-> [params |-> <<>>, call |-> <<>>],
     had_kwargs_param |-> FALSE]

Raised(kind, message) == [raised |-> kind, message |-> message, tool |-> NoAdapter]
Returned(tool) == [raised |-> "none", message |-> "", tool |-> tool]

mcp_to_smolagent_tool(mcp_tool) ==
    IF ~mcp_tool.present
    THEN Raised("ConversionError", "Cannot convert None to SmolAgents Tool")
    ELSE IF mcp_tool.name = ""
    THEN Raised("ConversionError", "MCPTool must have a name")
    ELSE IF ~mcp_tool.callable
    THEN Raised("ConversionError",
                "MCPTool '" \o mcp_tool.name \o "' must have a callable function")
    ELSE LET st   == BuildSchema(mcp_tool)
             code == ForwardCode(st)
         IN  IF ~Compiles(code)
             THEN Raised("ConversionError",
                         "Error converting MCPTool '" \o mcp_tool.name
                             \o "' to SmolAgents Tool: invalid syntax")
             ELSE Returned([name |-> mcp_tool.name,
                            description |-> mcp_tool.description,
                            inputs |-> st.input_schema,
                            output_type |-> "string",
                            forward |-> code,
                            had_kwargs_param |-> st.has_kwargs_param])

\* tool.forward(**arguments): binding fails with TypeError unless the keywords
\* are exactly the formals; otherwise mcp_function is called once with the
\* keywords of the generated call.
ForwardBinds(tool, arguments) ==
    {a.name : a \in arguments}
        = {tool.forward.params[i] : i \in 1..Len(tool.forward.params)}

Argument(arguments, name) == (CHOOSE a \in arguments : a.name = name).value

ForwardCall(tool, arguments) ==
    [i \in 1..Len(tool.forward.call) |->
        [kw |-> tool.forward.call[i].kw,
         value |-> Argument(arguments, tool.forward.call[i].arg)]]

\* ------------------------------------------------------- MCPToolService
\* The service's contract: start() reports success or failure and sets
\* connected; stop() disconnects; get_tools() returns the server's tools or
\* raises.
StartOutcomes == {"started", "failed", "raised", "start_raised"}

ServiceStop(isConnected) == FALSE

DiscoveryOutcomes(tools) ==
    {[ok |-> TRUE, tools |-> tools], [ok |-> FALSE, tools |-> <<>>]}

\* The exception classes: ConversionError and ServiceError are siblings.
IsServiceError(kind) == kind = "ServiceError"

\* The tools a server may offer, in every order and multiplicity.
ServerTools ==
    {AbsentTool,
     MCPTool("", TRUE, FALSE, <<>>),
     MCPTool("calc", FALSE, FALSE, <<>>),
     MCPTool("fetch", TRUE, TRUE,
             <<[name |-> "bad-name", type |-> "string", description |-> NoValue]>>),
     MCPTool("search", TRUE, TRUE,
             <<[name |-> "query", type |-> "string", description |-> NoValue]>>),
     MCPTool("run", TRUE, TRUE,
             <<[name |-> "kwargs", type |-> "object", description |-> NoValue]>>)}

Batches == SeqsUpTo(ServerTools, MaxTools)

\* ------------------------------------------------------------------ state
VARIABLES
    pc,             \* "unconstructed", "alive", "finalized"; "garbage" and
                    \* "reclaimed" for an object whose constructor raised
    via,            \* the construction path taken
    own_arg,        \* the own_service argument: "default", "True" or "False"
    has_service,    \* hasattr(self, 'service')
    own_service,    \* self.own_service
    started,        \* self.started
    connected,      \* service.connected
    stop_calls,     \* calls of service.stop() made by the factory
    close_calls,    \* explicit calls of close()
    service_tools,  \* what the server offers
    last,           \* the outcome of the last get_tools / get_smolagent_tools
    mcp_tool,       \* the descriptor given to mcp_to_smolagent_tool
    converted,      \* what mcp_to_smolagent_tool did with it
    dispatched,     \* the last call of the adapter's forward
    function_calls  \* the calls of mcp_tool.function made so far

factoryVars == <<pc, via, own_arg, has_service, own_service, started, connected,
                 stop_calls, close_calls, service_tools, last>>
convVars    == <<mcp_tool, converted, dispatched, function_calls>>
vars        == <<pc, via, own_arg, has_service, own_service, started, connected,
                 stop_calls, close_calls, service_tools, last,
                 mcp_tool, converted, dispatched, function_calls>>

NoCall == [op |-> "none", raised |-> "none", message |-> "", discovered |-> FALSE,
           fault |-> FALSE, batch |-> <<>>, tools |-> <<>>, adapters |-> <<>>, errors |-> <<>>]

NotConverted == [raised |-> "pending", message |-> "", tool |-> NoAdapter]
NotDispatched == [done |-> FALSE, raised |-> "none", arguments |-> {}]

\* ------------------------------------------------- construction and close
\* The defaults of own_service: __init__ and from_service.
InitDefaultOwn        == TRUE
\* A variant of FromServiceDefaultOwn: the constructor's default.
FromServiceDefaultOwnTrue == TRUE
FromServiceDefaultOwn == FALSE

OwnArgs == {"default", "True", "False"}
OwnValue(arg, default) == IF arg = "default" THEN default ELSE arg = "True"

\* __init__ with service given: the flag is a copy of service.connected.
InitWithService(own) ==
    /\ own_service' = own
    /\ has_service' = TRUE
    /\ started' = connected
    /\ pc' = "alive"
    /\ UNCHANGED connected

\* __init__ without service: a new MCPToolService is built and started.  When
\* its constructor raises, self.service is never assigned; when start()
\* raises, self.service is assigned and own_service keeps the argument.
InitWithParams(own, outcome) ==
    /\ own_service' = IF outcome \in {"started", "failed"} THEN TRUE ELSE own
    /\ has_service' = (outcome # "raised")
    /\ connected' = (outcome = "started")
    /\ started' = (outcome = "started")
    /\ pc' = IF outcome \in {"started", "failed"} THEN "alive" ELSE "garbage"

\* The body of close().
close ==
    IF has_service /\ own_service
    THEN /\ stop_calls' = stop_calls + 1
         /\ connected' = ServiceStop(connected)
    ELSE UNCHANGED <<stop_calls, connected>>

\* ------------------------------------------------------------- discovery
\* A variant of get_tools that does not look at self.started.
get_toolsAlways(is_started, discovery) ==
    IF discovery.ok
    THEN [raised |-> "none", message |-> "", discovered |-> TRUE,
          fault |-> FALSE, tools |-> discovery.tools]
    ELSE [raised |-> "ServiceError", message |-> "Error retrieving tools: fault",
          discovered |-> TRUE, fault |-> TRUE, tools |-> <<>>]

\* get_tools(): discovery is what service.get_tools() does if it is called.
get_tools(is_started, discovery) ==
    IF ~is_started
    THEN [raised |-> "none", message |-> "", discovered |-> FALSE,
          fault |-> FALSE, tools |-> <<>>]
    ELSE IF discovery.ok
    THEN [raised |-> "none", message |-> "", discovered |-> TRUE,
          fault |-> FALSE, tools |-> discovery.tools]
    ELSE [raised |-> "ServiceError", message |-> "Error retrieving tools: fault",
          discovered |-> TRUE, fault |-> TRUE, tools |-> <<>>]

\* tool.name if hasattr(tool, 'name') else 'unknown'
ToolName(tool) == IF tool.present THEN tool.name ELSE "unknown"

\* A variant of ConvertStep whose except clause collects nothing.
ConvertStepNoCollect(acc, tool) ==
    LET r == mcp_to_smolagent_tool(tool)
    IN  IF r.raised = "none"
        THEN [acc EXCEPT !.smolagent_tools = Append(@, r.tool)]
        ELSE acc

\* One iteration of the loop of get_smolagent_tools().
ConvertStep(acc, tool) ==
    LET r == mcp_to_smolagent_tool(tool)
    IN  IF r.raised = "none"
        THEN [acc EXCEPT !.smolagent_tools = Append(@, r.tool)]
        ELSE [acc EXCEPT !.conversion_errors =
                 Append(@, "Error converting " \o ToolName(tool)
                               \o " to SmolAgents Tool: " \o r.message)]

RECURSIVE ConvertLoop(_, _)
ConvertLoop(acc, tools) ==
    IF tools = <<>> THEN acc
    ELSE ConvertLoop(ConvertStep(acc, Head(tools)), Tail(tools))

RECURSIVE Join(_, _)
Join(sep, strings) ==
    IF strings = <<>> THEN ""
    ELSE IF Len(strings) = 1 THEN strings[1]
    ELSE strings[1] \o sep \o Join(sep, Tail(strings))

\* The except clauses of get_smolagent_tools(): a ServiceError is re-raised,
\* any other exception is wrapped into a ServiceError.
Handle(kind, message) ==
    IF IsServiceError(kind)
    THEN [raised |-> kind, message |-> message]
    ELSE [raised |-> "ServiceError",
          message |-> "Error getting SmolAgents tools: " \o message]

get_smolagent_tools(is_started, discovery) ==
    LET got == get_tools(is_started, discovery)
        acc == ConvertLoop([smolagent_tools |-> <<>>, conversion_errors |-> <<>>],
                           got.tools)
        out == [op |-> "get_smolagent_tools", raised |-> "none", message |-> "",
                discovered |-> got.discovered, fault |-> got.fault,
                batch |-> got.tools, tools |-> <<>>,
                adapters |-> <<>>, errors |-> <<>>]
    IN  IF got.raised # "none"
        THEN LET h == Handle(got.raised, got.message)
             IN  [out EXCEPT !.raised = h.raised, !.message = h.message]
        ELSE IF acc.smolagent_tools = <<>> /\ acc.conversion_errors # <<>>
        THEN LET h == Handle("ConversionError",
                             "Failed to convert any tools. Errors: "
                                 \o Join(", ", acc.conversion_errors))
             IN  [out EXCEPT !.raised = h.raised, !.message = h.message,
                             !.errors = acc.conversion_errors]
        ELSE [out EXCEPT !.adapters = acc.smolagent_tools,
                         !.errors = acc.conversion_errors]

\* --------------------------------------------------------------- actions
ConstructInitService(arg) ==
    /\ pc = "unconstructed"
    /\ InitWithService(OwnValue(arg, InitDefaultOwn))
    /\ via' = "__init__(service)"
    /\ own_arg' = arg
    /\ UNCHANGED <<stop_calls, close_calls, service_tools, last>>
    /\ UNCHANGED convVars

ConstructFromService(arg) ==
    /\ pc = "unconstructed"
    /\ InitWithService(OwnValue(arg, FromServiceDefaultOwn))
    /\ via' = "from_service"
    /\ own_arg' = arg
    /\ UNCHANGED <<stop_calls, close_calls, service_tools, last>>
    /\ UNCHANGED convVars

ConstructInitParams(arg, outcome) ==
    /\ pc = "unconstructed"
    /\ InitWithParams(OwnValue(arg, InitDefaultOwn), outcome)
    /\ via' = "__init__(params)"
    /\ own_arg' = arg
    /\ UNCHANGED <<stop_calls, close_calls, service_tools, last>>
    /\ UNCHANGED convVars

\* create_new passes own_service=True.
ConstructCreateNew(outcome) ==
    /\ pc = "unconstructed"
    /\ InitWithParams(OwnValue("True", InitDefaultOwn), outcome)
    /\ via' = "create_new"
    /\ own_arg' = "True"
    /\ UNCHANGED <<stop_calls, close_calls, service_tools, last>>
    /\ UNCHANGED convVars

Close ==
    /\ pc = "alive"
    /\ close_calls < MaxCloses
    /\ close
    /\ close_calls' = close_calls + 1
    /\ UNCHANGED <<pc, via, own_arg, has_service, own_service, started,
                   service_tools, last>>
    /\ UNCHANGED convVars

\* __del__
Finalize ==
    /\ pc \in {"alive", "garbage"}
    /\ close
    /\ pc' = IF pc = "alive" THEN "finalized" ELSE "reclaimed"
    /\ UNCHANGED <<via, own_arg, has_service, own_service, started, close_calls,
                   service_tools, last>>
    /\ UNCHANGED convVars

GetTools ==
    /\ pc = "alive"
    /\ \E discovery \in DiscoveryOutcomes(service_tools) :
          LET got == get_tools(started, discovery)
          IN  last' = [op |-> "get_tools", raised |-> got.raised,
                       message |-> got.message, discovered |-> got.discovered,
                       fault |-> got.fault, batch |-> got.tools, tools |-> got.tools,
                       adapters |-> <<>>, errors |-> <<>>]
    /\ UNCHANGED <<pc, via, own_arg, has_service, own_service, started, connected,
                   stop_calls, close_calls, service_tools>>
    /\ UNCHANGED convVars

GetSmolagentTools ==
    /\ pc = "alive"
    /\ \E discovery \in DiscoveryOutcomes(service_tools) :
          last' = get_smolagent_tools(started, discovery)
    /\ UNCHANGED <<pc, via, own_arg, has_service, own_service, started, connected,
                   stop_calls, close_calls, service_tools>>
    /\ UNCHANGED convVars

\* The owner of a caller-supplied service starts it after the factory wrapped it.
ServiceConnects ==
    /\ pc = "alive"
    /\ via \in {"__init__(service)", "from_service"}
    /\ ~connected
    /\ stop_calls = 0
    /\ connected' = TRUE
    /\ UNCHANGED <<pc, via, own_arg, has_service, own_service, started,
                   stop_calls, close_calls, service_tools, last>>
    /\ UNCHANGED convVars

\* The connection is lost, or the owner of the service stops it.
ServiceDisconnects ==
    /\ pc = "alive"
    /\ connected
    /\ connected' = FALSE
    /\ UNCHANGED <<pc, via, own_arg, has_service, own_service, started,
                   stop_calls, close_calls, service_tools, last>>
    /\ UNCHANGED convVars

Convert ==
    /\ converted.raised = "pending"
    /\ converted' = mcp_to_smolagent_tool(mcp_tool)
    /\ UNCHANGED <<mcp_tool, dispatched, function_calls>>
    /\ UNCHANGED factoryVars

\* The keyword arguments a caller may pass: the schema's keys, or query alone.
ArgumentSets(tool) ==
    LET keysets == {{"query"}, {tool.inputs[i].key : i \in 1..Len(tool.inputs)}}
    IN  UNION {{{[name |-> k, value |-> f[k]] : k \in K} : f \in [K -> Values]} :
                  K \in keysets}

Dispatch(arguments) ==
    /\ converted.raised = "none"
    /\ ~dispatched.done
    /\ IF ForwardBinds(converted.tool, arguments)
       THEN /\ function_calls' =
                   Append(function_calls, ForwardCall(converted.tool, arguments))
            /\ dispatched' = [done |-> TRUE, raised |-> "none", arguments |-> arguments]
       ELSE /\ dispatched' = [done |-> TRUE, raised |-> "TypeError",
                              arguments |-> arguments]
            /\ UNCHANGED function_calls
    /\ UNCHANGED <<mcp_tool, converted>>
    /\ UNCHANGED factoryVars

\* -------------------------------------------------------- specifications
FactoryStart ==
    /\ pc = "unconstructed"
    /\ via = "none"
    /\ own_arg = "default"
    /\ has_service = FALSE
    /\ own_service = FALSE
    /\ started = FALSE
    /\ stop_calls = 0
    /\ close_calls = 0
    /\ last = NoCall

ConvertStart ==
    /\ converted = NotConverted
    /\ dispatched = NotDispatched
    /\ function_calls = <<>>

\* The factory over a service whose server offers any batch of tools.
Init ==
    /\ FactoryStart
    /\ connected \in BOOLEAN
    /\ service_tools \in Batches
    /\ ConvertStart
    /\ mcp_tool = AbsentTool

Next ==
    \/ \E arg \in OwnArgs : ConstructInitService(arg)
    \/ \E arg \in OwnArgs : ConstructFromService(arg)
    \/ \E arg \in OwnArgs, outcome \in StartOutcomes : ConstructInitParams(arg, outcome)
    \/ \E outcome \in StartOutcomes : ConstructCreateNew(outcome)
    \/ Close
    \/ Finalize
    \/ GetTools
    \/ GetSmolagentTools
    \/ ServiceConnects
    \/ ServiceDisconnects

Spec == Init /\ [][Next]_vars

\* mcp_to_smolagent_tool applied to any descriptor, and the adapter called.
InitConvert ==
    /\ FactoryStart
    /\ connected = FALSE
    /\ service_tools = <<>>
    /\ ConvertStart
    /\ mcp_tool \in MCPTools

NextConvert ==
    \/ Convert
    \/ \E arguments \in ArgumentSets(converted.tool) : Dispatch(arguments)

SpecConvert == InitConvert /\ [][NextConvert]_vars

\* ------------------------------------------------------------ properties
Constructed == pc \in {"alive", "finalized"}

\* The ways a descriptor fails conversion: it is None, has no name, has no
\* callable function, or (without a 'kwargs' parameter) declares a parameter
\* whose name cannot be a formal of forward.
Unconvertible(tool) ==
    \/ ~tool.present
    \/ tool.name = ""
    \/ ~tool.callable
    \/ /\ \A i \in 1..Len(tool.inputs) : tool.inputs[i].name # "kwargs"
       /\ \E i \in 1..Len(tool.inputs) : tool.inputs[i].name \in NotIdentifiers

RejectedOnSight(tool) == ~tool.present \/ tool.name = "" \/ ~tool.callable

Convertible(tool) == ~Unconvertible(tool)

HasKwargs(tool) == \E i \in 1..Len(tool.inputs) : tool.inputs[i].name = "kwargs"

Names(tools) == [i \in 1..Len(tools) |-> tools[i].name]

Discovered(op) == last.op = op /\ last.discovered /\ ~last.fault

\* C1: stop() is called at most once over the life of a factory that owns
\* its service, however often close() is called, and never by a factory that
\* does not own it.
C1_StopAtMostOnce ==
    /\ own_service => stop_calls <= 1
    /\ ~own_service => stop_calls = 0

\* C2: when discovery returns a non-empty batch in which every descriptor
\* fails conversion, the error get_smolagent_tools() raises to its caller is
\* a ConversionError.
C2_AllFailRaisesConversionError ==
    (/\ Discovered("get_smolagent_tools")
     /\ last.batch # <<>>
     /\ \A i \in 1..Len(last.batch) : RejectedOnSight(last.batch[i]))
        => last.raised = "ConversionError"

\* C3: when discovery returns N descriptors of which K, 0 < K < N, are
\* unconvertible, get_smolagent_tools() raises nothing, returns the N-K
\* adapters of the convertible descriptors in discovery order and records K
\* conversion errors.
C3_PartialFailure ==
    LET N == Len(last.batch)
        K == Cardinality({i \in 1..N : Unconvertible(last.batch[i])})
    IN  (Discovered("get_smolagent_tools") /\ 0 < K /\ K < N)
            => /\ last.raised = "none"
               /\ Len(last.adapters) = N - K
               /\ Names(last.adapters) = Names(SelectSeq(last.batch, Convertible))
               /\ Len(last.errors) = K

C3_Witness ==
    /\ Discovered("get_smolagent_tools")
    /\ Len(last.batch) = 3
    /\ RejectedOnSight(last.batch[1])
    /\ Convertible(last.batch[2])
    /\ Unconvertible(last.batch[3])
    /\ Len(last.adapters) = 1

\* C4: the adapter of a descriptor with a parameter named 'kwargs', alone or
\* among others, has the single schema key 'query', and forward(query=V)
\* calls the descriptor's function exactly once, with kwargs=V.
C4_KwargsSchemaIsQuery ==
    (converted.raised = "none" /\ HasKwargs(mcp_tool))
        => /\ DictKeys(converted.tool.inputs) = <<"query">>
           /\ \A v \in Values :
                 (dispatched.done /\ dispatched.arguments = {[name |-> "query", value |-> v]})
                     => function_calls = << <<[kw |-> "kwargs", value |-> v]>> >>

\* C5: the formal parameters of forward (after self) of every adapter are the
\* keys of its inputs, in the same order.
C5_FormalsAreSchemaKeys ==
    converted.raised = "none"
        => converted.tool.forward.params = DictKeys(converted.tool.inputs)

\* C6 as stated: a factory wrapping a caller-supplied service without an
\* ownership argument is non-owning on every construction path and never
\* calls stop(); a factory built from connection parameters owns its service.
C6_WrapNeverOwns ==
    Constructed =>
        /\ (via \in {"__init__(service)", "from_service"} /\ own_arg = "default")
               => (~own_service /\ stop_calls = 0)
        /\ via \in {"__init__(params)", "create_new"} => own_service

\* C6 amended: without an ownership argument from_service yields a factory
\* that does not own the service and never calls stop(), while the constructor
\* with service=... yields one that owns it, so that every close() calls
\* stop(); a factory built from connection parameters owns its service
\* whatever own_service was passed.
C6_Ownership ==
    Constructed =>
        /\ (via = "from_service" /\ own_arg = "default")
               => (~own_service /\ stop_calls = 0)
        /\ (via = "__init__(service)" /\ own_arg = "default")
               => /\ own_service
                  /\ stop_calls = close_calls + (IF pc = "finalized" THEN 1 ELSE 0)
        /\ via \in {"__init__(params)", "create_new"} => own_service

C6_Witness ==
    /\ pc = "finalized"
    /\ via = "from_service"
    /\ own_arg = "default"
    /\ close_calls >= 1
    /\ stop_calls = 0

\* C7: the factory's started flag equals the service's connected flag in
\* every state of a constructed factory.
C7_StartedMirrorsConnected ==
    (pc = "alive" /\ has_service) => started = connected

\* C8: when started is false, get_tools() and get_smolagent_tools() return
\* an empty sequence without calling the service's discovery and without
\* raising; get_smolagent_tools() on an empty discovery batch returns an
\* empty sequence and raises nothing.
C8_NotReadyIsEmpty ==
    /\ (last.op \in {"get_tools", "get_smolagent_tools"} /\ ~started)
           => /\ ~last.discovered
              /\ last.raised = "none"
              /\ last.tools = <<>>
              /\ last.adapters = <<>>
              /\ last.errors = <<>>
    /\ (Discovered("get_smolagent_tools") /\ last.batch = <<>>)
           => (last.raised = "none" /\ last.adapters = <<>>)

C8_Witness ==
    /\ last.op = "get_smolagent_tools"
    /\ ~started
    /\ connected
    /\ service_tools # <<>>
    /\ last.adapters = <<>>

\* The schema entry that parameter i of the descriptor determines: the last
\* parameter stored under a key decides its entry.
Decides(i) ==
    \A j \in (i + 1)..Len(mcp_tool.inputs) :
        RenameParam(mcp_tool.inputs[j].name) # RenameParam(mcp_tool.inputs[i].name)

\* C9 as stated: a parameter without description gets "Parameter: <name>"
\* with the name it was declared under, before the rename.
C9_DefaultNamesOriginal ==
    converted.raised = "none" =>
        \A i \in 1..Len(mcp_tool.inputs) :
            (Decides(i) /\ mcp_tool.inputs[i].description = NoValue)
                => DictGet(converted.tool.inputs,
                           RenameParam(mcp_tool.inputs[i].name)).description
                       = "Parameter: " \o mcp_tool.inputs[i].name

\* C9 amended: a parameter without description gets "Parameter: <name>" with
\* the adapter-facing name, after the rename: {kwargs: {type: object}} yields
\* {query: {type: object, description: "Parameter: query"}}.
C9_DefaultNamesRenamed ==
    converted.raised = "none" =>
        /\ \A i \in 1..Len(mcp_tool.inputs) :
              (Decides(i) /\ mcp_tool.inputs[i].description = NoValue)
                  => DictGet(converted.tool.inputs,
                             RenameParam(mcp_tool.inputs[i].name)).description
                         = "Parameter: " \o RenameParam(mcp_tool.inputs[i].name)
        /\ mcp_tool.inputs =
               <<[name |-> "kwargs", type |-> "object", description |-> NoValue]>>
              => converted.tool.inputs =
                     <<[key |-> "query",
                        value |-> [type |-> "object",
                                   description |-> "Parameter: query"]]>>

C9_Witness ==
    /\ converted.raised = "none"
    /\ mcp_tool.inputs =
           <<[name |-> "kwargs", type |-> "object", description |-> NoValue]>>

\* C10: every adapter declares at least one input; a descriptor with no
\* declared parameters (inputs missing or empty) gets exactly the synthetic
\* string parameter 'query', and one with declared parameters gets only the
\* keys of its own parameters.
C10_AtLeastOneInput ==
    converted.raised = "none" =>
        /\ Len(converted.tool.inputs) >= 1
        /\ mcp_tool.inputs = <<>>
              => converted.tool.inputs =
                     <<[key |-> "query",
                        value |-> [type |-> "string",
                                   description |-> "Input query for the tool"]]>>
        /\ mcp_tool.inputs # <<>>
              => /\ {converted.tool.inputs[i].key : i \in 1..Len(converted.tool.inputs)}
                        = {RenameParam(mcp_tool.inputs[i].name) :
                              i \in 1..Len(mcp_tool.inputs)}
                 /\ Len(converted.tool.inputs) <= Len(mcp_tool.inputs)

C10_Witness ==
    /\ converted.raised = "none"
    /\ ~mcp_tool.hasInputs
    /\ Len(converted.tool.inputs) = 1

====
